---- MODULE Spec2Model ----
(***************************************************************************)
(* Model of scripts/generate_svg.py: the contributions line chart builder  *)
(* (build_svg, _month_labels), the data source (fetch_contributions) and   *)
(* the entry point (main).                                                  *)
(*                                                                          *)
(* Conventions                                                              *)
(*  - An ISO date string "YYYY-MM-DD" is the number YYYYMMDD: the order of  *)
(*    the strings is the order of the numbers, [:4] is \div 10000 and       *)
(*    date.fromisoformat splits it into year, month and day.                *)
(*  - A Python float is an exact fraction <<num, den>> with den > 0; the    *)
(*    binary rounding of float arithmetic is not modelled.                  *)
(*  - f"{v:.2f}" is the number of hundredths nearest to v.                  *)
(*  - math.log1p(c) is Log1pE4(c) / 10000.                                  *)
(*  - Python indices are 0-based, sequences here are 1-based: sample i of   *)
(*    the code is days[i + 1].                                              *)
(***************************************************************************)
EXTENDS Integers, Sequences, FiniteSets, TLC

VARIABLES pc,        \* position of the run
          env,       \* os.environ: GITHUB_TOKEN and GH_PAT
          upstream,  \* what the GitHub GraphQL endpoint answers
          out,       \* args.out
          days,      \* the series of samples
          cfg,       \* width, height, padding, bg, stroke, text of build_svg
          xs,        \* build_svg: xs
          ys,        \* build_svg: ys
          norms,     \* build_svg: norm of each y_for_count call
          path,      \* build_svg: path
          labels,    \* build_svg: labels
          svg,       \* build_svg: the returned document
          raised,    \* the exception that ended the call, or "none"
          outFile    \* the file at args.out

vars == <<pc, env, upstream, out, days, cfg, xs, ys, norms, path, labels, svg,
          raised, outFile>>

----------------------------------------------------------------------------
(* Program constants *)

BG == "#1e1e1e"
STROKE == "#E65729"
TEXT == "#ffffff"

DefaultWidth == 1200
DefaultHeight == 360
DefaultPadding == 52
LogThreshold == 20
grid_lines == 5
TitleDy == 16
SubtitleDy == 6
LabelDy == 24
MaxDy == 10
CornerRadius == 14
HttpOk == 200

(* Bounds of the model *)

MaxLen == 3

----------------------------------------------------------------------------
(* Calendar dates *)

IsLeap(y) == (y % 4 = 0 /\ y % 100 # 0) \/ y % 400 = 0

DaysInMonth(y, m) ==
    IF m = 2 THEN (IF IsLeap(y) THEN 29 ELSE 28)
    ELSE IF m \in {4, 6, 9, 11} THEN 30 ELSE 31

YearLen(y) == IF IsLeap(y) THEN 366 ELSE 365

IsoDate(y, m, d) == y * 10000 + m * 100 + d

RECURSIVE OrdinalDate(_, _, _)
OrdinalDate(y, m, k) ==
    IF k <= DaysInMonth(y, m) THEN IsoDate(y, m, k)
    ELSE OrdinalDate(y, m + 1, k - DaysInMonth(y, m))

fromisoformat(s) ==
    [year |-> s \div 10000, month |-> (s \div 100) % 100, day |-> s % 100]

MonthAbbr == <<"Jan", "Feb", "Mar", "Apr", "May", "Jun",
               "Jul", "Aug", "Sep", "Oct", "Nov", "Dec">>

strftime_b(date_obj) == MonthAbbr[date_obj.month]

----------------------------------------------------------------------------
(* Floats as fractions, and their two-decimal formatting *)

Log1pTable ==
    << 0, 6931, 10986, 13863, 16094, 17918, 19459, 20794, 21972, 23026,
       23979, 24849, 25649, 26391, 27081, 27726, 28332, 28904, 29444, 29957,
       30445, 30910, 31355, 31781, 32189, 32581, 32958, 33322, 33673, 34012,
       34340, 34657, 34965, 35264, 35553, 35835, 36109, 36376, 36636, 36889,
       37136, 37377, 37612, 37842, 38067, 38286, 38501, 38712, 38918, 39120,
       39318, 39512, 39703, 39890, 40073, 40254, 40431, 40604, 40775, 40943,
       41109, 41271, 41431, 41589, 41744, 41897, 42047, 42195, 42341, 42485,
       42627, 42767, 42905, 43041, 43175, 43307, 43438, 43567, 43694, 43820,
       43944, 44067, 44188, 44308, 44427, 44543, 44659, 44773, 44886, 44998,
       45109, 45218, 45326, 45433, 45539, 45643, 45747, 45850, 45951, 46052,
       46151, 46250 >>

Log1pE4(c) == Log1pTable[c + 1]

Fmt2(v) ==
    LET q  == v[1] \div v[2]
        r  == v[1] % v[2]
        h  == (100 * r) \div v[2]
        up == 2 * ((100 * r) % v[2])
    IN  100 * q + (IF up > v[2] \/ (up = v[2] /\ h % 2 = 1) THEN h + 1 ELSE h)

----------------------------------------------------------------------------
(* _month_labels *)

\* Variant: the month test dropped, every 1st of a month is an anchor.
MutAnchorAnyFirstOfMonth(date_obj) == date_obj.day = 1

\* date_obj.day == 1 and date_obj.month in (1, 4, 7, 10)
IsAnchor(date_obj) == date_obj.day = 1 /\ date_obj.month \in {1, 4, 7, 10}

\* The pairs the loop appends while it visits samples lo..hi (1-based), in
\* the order it visits them.
RECURSIVE month_labels_loop(_, _, _)
month_labels_loop(ds, lo, hi) ==
    IF lo > hi THEN <<>>
    ELSE IF lo = hi THEN
        LET date_obj == fromisoformat(ds[lo].date)
        IN  IF IsAnchor(date_obj) THEN << <<lo - 1, strftime_b(date_obj)>> >>
            ELSE <<>>
    ELSE LET mid == (lo + hi) \div 2
         IN  month_labels_loop(ds, lo, mid) \o month_labels_loop(ds, mid + 1, hi)

month_labels(ds) == month_labels_loop(ds, 1, Len(ds))

----------------------------------------------------------------------------
(* build_svg *)

ConfigOf(width, height, padding, bg, stroke, text) ==
    [width |-> width, height |-> height, padding |-> padding,
     bg |-> bg, stroke |-> stroke, text |-> text]

DefaultConfig ==
    ConfigOf(DefaultWidth, DefaultHeight, DefaultPadding, BG, STROKE, TEXT)

NoDocument == [kind |-> "none"]

RECURSIVE SumRange(_, _, _)
SumRange(s, lo, hi) ==
    IF lo > hi THEN 0
    ELSE IF lo = hi THEN s[lo]
    ELSE LET mid == (lo + hi) \div 2
         IN  SumRange(s, lo, mid) + SumRange(s, mid + 1, hi)

SumSeq(s) == SumRange(s, 1, Len(s))

RECURSIVE MaxRange(_, _, _)
MaxRange(s, lo, hi) ==
    IF lo = hi THEN s[lo]
    ELSE LET mid == (lo + hi) \div 2
             a   == MaxRange(s, lo, mid)
             b   == MaxRange(s, mid + 1, hi)
         IN  IF a >= b THEN a ELSE b

MaxSeq(s) == MaxRange(s, 1, Len(s))

CountsOf(ds) == [i \in DOMAIN ds |-> ds[i].count]

InnerW(c) == c.width - c.padding * 2

InnerH(c) == c.height - c.padding * 2

\* Variant: i / n in place of i / (n - 1).
MutXsDividesByN(n, c) ==
    [k \in 1..n |-> <<c.padding * n + (k - 1) * InnerW(c), n>>]

\* xs = [padding + (i / (n - 1)) * inner_w for i in range(n)], for n > 1
XsOf(n, c) ==
    [k \in 1..n |-> <<c.padding * (n - 1) + (k - 1) * InnerW(c), n - 1>>]

\* Variant: max_c >= 20 selects the logarithm.
MutNormLogFromThreshold(cnt, max_c) ==
    IF max_c >= LogThreshold THEN <<Log1pE4(cnt), Log1pE4(max_c)>>
    ELSE IF max_c # 0 THEN <<cnt, max_c>> ELSE <<0, 1>>

\* Variant: the logarithm is divided by log1p(max_c + 1).
MutNormDividesByPeakPlusOne(cnt, max_c) ==
    IF max_c > LogThreshold THEN <<Log1pE4(cnt), Log1pE4(max_c + 1)>>
    ELSE IF max_c # 0 THEN <<cnt, max_c>> ELSE <<0, 1>>

\* Variant: an all-zero series gets norm 1.
MutNormZeroPeakIsOne(cnt, max_c) ==
    IF max_c > LogThreshold THEN <<Log1pE4(cnt), Log1pE4(max_c)>>
    ELSE IF max_c # 0 THEN <<cnt, max_c>> ELSE <<1, 1>>

\* norm of y_for_count(cnt)
NormOf(cnt, max_c) ==
    IF max_c > LogThreshold THEN <<Log1pE4(cnt), Log1pE4(max_c)>>
    ELSE IF max_c # 0 THEN <<cnt, max_c>> ELSE <<0, 1>>

\* padding + (1 - norm) * inner_h
y_for_count(cnt, max_c, c) ==
    LET norm == NormOf(cnt, max_c)
    IN  <<c.padding * norm[2] + (norm[2] - norm[1]) * InnerH(c), norm[2]>>

PathOf(xv, yv) ==
    [k \in DOMAIN xv |->
        [cmd |-> IF k = 1 THEN "M" ELSE "L", x |-> Fmt2(xv[k]), y |-> Fmt2(yv[k])]]

GridOf(c) ==
    [k \in 1..(grid_lines + 1) |->
        [tag |-> "line", role |-> "grid",
         x1 |-> c.padding,
         y1 |-> Fmt2(<<c.padding * grid_lines + (k - 1) * InnerH(c), grid_lines>>),
         x2 |-> c.width - c.padding,
         y2 |-> Fmt2(<<c.padding * grid_lines + (k - 1) * InnerH(c), grid_lines>>),
         stroke |-> c.text]]

HeadOf(ds, c, total) ==
    << [tag |-> "rect", role |-> "background", fill |-> c.bg, rx |-> CornerRadius],
       [tag |-> "defs", role |-> "filter", id |-> "glow"],
       [tag |-> "text", role |-> "title", x |-> c.padding,
        y |-> c.padding - TitleDy, fill |-> c.text,
        content |-> "GitHub Contributions"],
       [tag |-> "text", role |-> "subtitle", x |-> c.padding,
        y |-> c.padding + SubtitleDy, fill |-> c.text,
        year |-> ds[1].date \div 10000, total |-> total] >>

PathsOf(p, c) ==
    << [tag |-> "path", role |-> "glow", d |-> p, stroke |-> c.stroke,
        stroke_width |-> "2.6", filter |-> "glow"],
       [tag |-> "path", role |-> "crisp", d |-> p, stroke |-> c.stroke,
        stroke_width |-> "1.4", filter |-> "none"] >>

MonthTextsOf(lb, xv, c) ==
    [k \in DOMAIN lb |->
        [tag |-> "text", role |-> "month", x |-> Fmt2(xv[lb[k][1] + 1]),
         y |-> c.height - c.padding + LabelDy, fill |-> c.text,
         content |-> lb[k][2]]]

MaxTextOf(max_c, c) ==
    << [tag |-> "text", role |-> "max", x |-> c.width - c.padding,
        y |-> c.padding - MaxDy, fill |-> c.text, content |-> max_c] >>

BodyOf(ds, c, total, max_c, xv, p, lb) ==
    HeadOf(ds, c, total) \o GridOf(c) \o PathsOf(p, c)
        \o MonthTextsOf(lb, xv, c) \o MaxTextOf(max_c, c)

\* Variant: the empty chart keeps its gridlines.
MutEmptyBodyKeepsGrid(c) ==
    << [tag |-> "rect", role |-> "background", fill |-> c.bg, rx |-> 0] >>
        \o GridOf(c)

\* the document of the empty series: the background rectangle
EmptyBody(c) ==
    << [tag |-> "rect", role |-> "background", fill |-> c.bg, rx |-> 0] >>

\* The locals and the outcome of one call build_svg(ds, **c).
build_svg(ds, c) ==
    IF ds = <<>> THEN
        [raised |-> "none", xs |-> <<>>, ys |-> <<>>, norms |-> <<>>,
         path |-> <<>>, labels |-> <<>>,
         svg |-> [kind |-> "svg", width |-> c.width, height |-> c.height,
                  viewBox |-> FALSE, body |-> EmptyBody(c)]]
    ELSE IF Len(ds) - 1 = 0 THEN
        [raised |-> "ZeroDivisionError", xs |-> <<>>, ys |-> <<>>, norms |-> <<>>,
         path |-> <<>>, labels |-> <<>>, svg |-> NoDocument]
    ELSE
        LET counts == CountsOf(ds)
            max_c  == MaxSeq(counts)
            total  == SumSeq(counts)
            n      == Len(ds)
            xv     == XsOf(n, c)
            nv     == [k \in 1..n |-> NormOf(counts[k], max_c)]
            yv     == [k \in 1..n |-> y_for_count(counts[k], max_c, c)]
            p      == PathOf(xv, yv)
            lb     == month_labels(ds)
        IN  [raised |-> "none", xs |-> xv, ys |-> yv, norms |-> nv,
             path |-> p, labels |-> lb,
             svg |-> [kind |-> "svg", width |-> c.width, height |-> c.height,
                      viewBox |-> TRUE,
                      body |-> BodyOf(ds, c, total, max_c, xv, p, lb)]]

----------------------------------------------------------------------------
(* fetch_contributions *)

Truthy(v) == v \notin {"unset", ""}

\* os.getenv("GITHUB_TOKEN") or os.getenv("GH_PAT"); "" when neither is set
github_token(e) ==
    IF Truthy(e.GITHUB_TOKEN) THEN e.GITHUB_TOKEN
    ELSE IF Truthy(e.GH_PAT) THEN e.GH_PAT ELSE ""

\* The exception that ends _request_graphql, or "none" when it returns the
\* decoded payload.
request_graphql(e, u) ==
    IF github_token(e) = "" THEN "RuntimeError"
    ELSE IF u.net # "ok" THEN "URLError"
    ELSE IF u.status < 200 \/ u.status >= 300 THEN "HTTPError"
    ELSE IF u.status # HttpOk THEN "RuntimeError"
    ELSE IF u.body.kind = "not_json" THEN "JSONDecodeError"
    ELSE "none"

RECURSIVE Flatten(_)
Flatten(weeks) ==
    IF weeks = <<>> THEN <<>> ELSE Head(weeks) \o Flatten(Tail(weeks))

ByDate(a, b) == a.date < b.date

fetch_contributions(e, u) ==
    LET req == request_graphql(e, u)
    IN  IF req # "none" THEN [raised |-> req, days |-> <<>>]
        ELSE IF u.body.kind = "errors" THEN [raised |-> "RuntimeError", days |-> <<>>]
        ELSE IF u.body.kind = "missing_key" THEN [raised |-> "KeyError", days |-> <<>>]
        ELSE IF u.body.kind = "null_user" THEN [raised |-> "TypeError", days |-> <<>>]
        ELSE [raised |-> "none", days |-> SortSeq(Flatten(u.body.weeks), ByDate)]

----------------------------------------------------------------------------
(* Inputs *)

Sample(date, count) == [date |-> date, count |-> count]

DateSamples == {20231001, 20240101, 20240102, 20240201}

CountSamples == {0, 5, 10, 20, 21}

AscendingDates(n) ==
    {d \in [1..n -> DateSamples] : \A i \in 1..(n - 1) : d[i] < d[i + 1]}

SmallSeries ==
    UNION {{[i \in 1..n |-> Sample(d[i], c[i])] :
                d \in AscendingDates(n), c \in [1..n -> CountSamples]} :
           n \in 0..MaxLen}

\* every day of year y: base everywhere, peak on the k-th day
YearSeriesOf(y, k, peak, base) ==
    [i \in 1..YearLen(y) |->
        Sample(OrdinalDate(y, 1, i), IF i = k THEN peak ELSE base)]

YearSeries ==
    {YearSeriesOf(y, p[1], p[2], p[3]) :
        y \in {2023, 2024}, p \in {<<200, 100, 0>>, <<1, 20, 1>>, <<200, 0, 0>>}}

Configs ==
    { DefaultConfig,
      ConfigOf(100, 60, 10, "#000000", "#00ff00", "#cccccc"),
      ConfigOf(104, 360, 52, BG, STROKE, TEXT),
      ConfigOf(60, 40, 52, BG, STROKE, TEXT),
      ConfigOf(200, 100, 0, BG, STROKE, TEXT) }

EnvValues == {"unset", "", "ghp_a"}

Envs == [GITHUB_TOKEN : EnvValues, GH_PAT : EnvValues]

WeeksSamples ==
    { <<>>,
      << <<Sample(20240101, 3)>> >>,
      << <<Sample(20240102, 0), Sample(20240101, 7)>>, <<Sample(20240103, 30)>> >>,
      << <<Sample(20240401, 0)>>, <<Sample(20240101, 0), Sample(20240201, 0)>> >> }

Bodies ==
    {[kind |-> k, weeks |-> <<>>] :
        k \in {"not_json", "errors", "missing_key", "null_user"}}
    \cup {[kind |-> "calendar", weeks |-> w] : w \in WeeksSamples}

Upstreams ==
    {[net |-> "unreachable", status |-> 0, body |-> [kind |-> "not_json", weeks |-> <<>>]]}
    \cup {[net |-> "ok", status |-> st, body |-> b] :
            st \in {HttpOk, 201, 500}, b \in Bodies}

Outs == {[dir |-> "assets", name |-> "contributions.svg"],
         [dir |-> "", name |-> "chart.svg"]}

NoEnv == [GITHUB_TOKEN |-> "unset", GH_PAT |-> "unset"]

NoUpstream ==
    [net |-> "unreachable", status |-> 0, body |-> [kind |-> "not_json", weeks |-> <<>>]]

----------------------------------------------------------------------------
(* One call of build_svg on a series and a configuration *)

InitBuild ==
    /\ pc = "call"
    /\ days \in SmallSeries \cup YearSeries
    /\ cfg \in Configs
    /\ env = NoEnv
    /\ upstream = NoUpstream
    /\ out = [dir |-> "assets", name |-> "contributions.svg"]
    /\ xs = <<>> /\ ys = <<>> /\ norms = <<>> /\ path = <<>> /\ labels = <<>>
    /\ svg = NoDocument
    /\ raised = "none"
    /\ outFile = NoDocument

CallBuildSvg ==
    /\ pc = "call"
    /\ LET r == build_svg(days, cfg)
       IN  /\ xs' = r.xs /\ ys' = r.ys /\ norms' = r.norms /\ path' = r.path
           /\ labels' = r.labels
           /\ svg' = r.svg
           /\ raised' = r.raised
           /\ pc' = IF r.raised = "none" THEN "returned" ELSE "failed"
    /\ UNCHANGED <<env, upstream, out, days, cfg, outFile>>

\* _month_labels(days), called on its own
CallMonthLabels ==
    /\ pc = "call"
    /\ labels' = month_labels(days)
    /\ pc' = "labelled"
    /\ UNCHANGED <<env, upstream, out, days, cfg, xs, ys, norms, path, svg, raised,
                   outFile>>

NextBuild == CallBuildSvg \/ CallMonthLabels

SpecBuild == InitBuild /\ [][NextBuild]_vars

----------------------------------------------------------------------------
(* One run of main *)

Init ==
    /\ pc = "start"
    /\ env \in Envs
    /\ upstream \in Upstreams
    /\ out \in Outs
    /\ days = <<>>
    /\ cfg = DefaultConfig
    /\ xs = <<>> /\ ys = <<>> /\ norms = <<>> /\ path = <<>> /\ labels = <<>>
    /\ svg = NoDocument
    /\ raised = "none"
    /\ outFile = NoDocument

\* days = fetch_contributions(args.user, args.year)
MainFetch ==
    /\ pc = "start"
    /\ LET r == fetch_contributions(env, upstream)
       IN  /\ days' = r.days
           /\ raised' = r.raised
           /\ pc' = IF r.raised = "none" THEN "fetched" ELSE "failed"
    /\ UNCHANGED <<env, upstream, out, cfg, xs, ys, norms, path, labels, svg, outFile>>

\* svg = build_svg(days)
MainBuild ==
    /\ pc = "fetched"
    /\ LET r == build_svg(days, cfg)
       IN  /\ xs' = r.xs /\ ys' = r.ys /\ norms' = r.norms /\ path' = r.path
           /\ labels' = r.labels
           /\ svg' = r.svg
           /\ raised' = r.raised
           /\ pc' = IF r.raised = "none" THEN "built" ELSE "failed"
    /\ UNCHANGED <<env, upstream, out, days, cfg, outFile>>

\* os.makedirs(os.path.dirname(args.out), exist_ok=True); open(...).write(svg)
MainWrite ==
    /\ pc = "built"
    /\ IF out.dir = ""
       THEN /\ raised' = "FileNotFoundError"
            /\ pc' = "failed"
            /\ UNCHANGED outFile
       ELSE /\ outFile' = svg
            /\ pc' = "written"
            /\ UNCHANGED raised
    /\ UNCHANGED <<env, upstream, out, days, cfg, xs, ys, norms, path, labels, svg>>

\* return 0
MainReturn ==
    /\ pc = "written"
    /\ pc' = "done"
    /\ UNCHANGED <<env, upstream, out, days, cfg, xs, ys, norms, path, labels, svg,
                   raised, outFile>>

Next == MainFetch \/ MainBuild \/ MainWrite \/ MainReturn

Spec == Init /\ [][Next]_vars

----------------------------------------------------------------------------
(* Properties of build_svg and _month_labels, under SpecBuild *)

Ended == pc \in {"returned", "failed"}

N == Len(days)

Peak ==
    IF days = <<>> THEN 0
    ELSE CHOOSE m \in {days[i].count : i \in DOMAIN days} :
            \A i \in DOMAIN days : days[i].count <= m

Baseline == cfg.padding + (cfg.height - 2 * cfg.padding)

FracLess(a, b) == a[1] * b[2] < b[1] * a[2]

FracIs(a, k) == a[1] = k * a[2]

\* C1: a series of exactly one sample is handled by build_svg, which returns
\* a document and raises no division fault.
C1_SingleSampleHandled ==
    (Ended /\ N = 1) => (raised = "none" /\ svg.kind = "svg")

\* C2: for an empty series and any configuration build_svg returns normally a
\* document holding the background rectangle and nothing else: no path, no
\* text, no gridline.
C2_EmptySeriesBackgroundOnly ==
    (Ended /\ N = 0) =>
        /\ pc = "returned" /\ raised = "none"
        /\ svg.kind = "svg"
        /\ svg.width = cfg.width /\ svg.height = cfg.height
        /\ Len(svg.body) = 1
        /\ svg.body[1].tag = "rect" /\ svg.body[1].fill = cfg.bg
        /\ \A i \in DOMAIN svg.body : svg.body[i].tag \notin {"path", "text", "line"}

C2_Witness ==
    pc = "returned" /\ N = 0 /\ cfg # DefaultConfig /\ Len(svg.body) = 1

\* C4 as stated: for every series of more than one sample and every
\* configuration the x positions strictly increase, the first is padding, the
\* last is width - padding, and all lie in [padding, width - padding].
C4_XsStrictlyIncreasing ==
    (Ended /\ N > 1) =>
        /\ Len(xs) = N
        /\ FracIs(xs[1], cfg.padding)
        /\ FracIs(xs[N], cfg.width - cfg.padding)
        /\ \A k \in 1..(N - 1) : FracLess(xs[k], xs[k + 1])
        /\ \A k \in 1..N : /\ xs[k][1] >= cfg.padding * xs[k][2]
                           /\ xs[k][1] <= (cfg.width - cfg.padding) * xs[k][2]

\* C4 amended: for every series of more than one sample and every
\* configuration the first x is padding and the last is width - padding; the
\* x positions strictly increase and lie in [padding, width - padding] when
\* width > 2 * padding, all equal padding when width = 2 * padding, and
\* strictly decrease when width < 2 * padding.
C4_XsSpanAndOrder ==
    (Ended /\ N > 1) =>
        /\ Len(xs) = N
        /\ FracIs(xs[1], cfg.padding)
        /\ FracIs(xs[N], cfg.width - cfg.padding)
        /\ cfg.width > 2 * cfg.padding =>
              /\ \A k \in 1..(N - 1) : FracLess(xs[k], xs[k + 1])
              /\ \A k \in 1..N : /\ xs[k][1] >= cfg.padding * xs[k][2]
                                 /\ xs[k][1] <= (cfg.width - cfg.padding) * xs[k][2]
        /\ cfg.width = 2 * cfg.padding =>
              \A k \in 1..N : FracIs(xs[k], cfg.padding)
        /\ cfg.width < 2 * cfg.padding =>
              \A k \in 1..(N - 1) : FracLess(xs[k + 1], xs[k])

C4_Witness ==
    /\ pc = "returned" /\ N = 3
    /\ cfg.width > 2 * cfg.padding
    /\ FracLess(xs[1], xs[2]) /\ FracLess(xs[2], xs[3])
    /\ FracIs(xs[3], cfg.width - cfg.padding)

IsQuarterStart(date) ==
    date % 100 = 1 /\ (date \div 100) % 100 \in {1, 4, 7, 10}

IsMonthText(e) == e.role = "month"

CoversFullYear ==
    /\ N >= 365
    /\ days[1].date % 10000 = 101
    /\ days[N].date % 10000 = 1231
    /\ days[1].date \div 10000 = days[N].date \div 10000
    /\ N = (IF IsLeap(days[1].date \div 10000) THEN 366 ELSE 365)

\* C5: _month_labels returns, in ascending sample index, a pair (index, short
\* month name) for a sample exactly when its date is the 1st of January,
\* April, July or October; a series of every day of one calendar year gives
\* exactly 4 pairs; build_svg emits one month label per pair it received, at
\* that sample's x.
C5_MonthLabels ==
    /\ pc = "labelled" =>
          /\ \A i \in 0..(N - 1) :
                IsQuarterStart(days[i + 1].date)
                    <=> (\E k \in DOMAIN labels : labels[k][1] = i)
          /\ \A k \in DOMAIN labels :
                /\ labels[k][1] \in 0..(N - 1)
                /\ labels[k][2] = MonthAbbr[(days[labels[k][1] + 1].date \div 100) % 100]
          /\ \A k \in 1..(Len(labels) - 1) : labels[k][1] < labels[k + 1][1]
          /\ CoversFullYear => Len(labels) = 4
    /\ pc = "returned" /\ N > 0 =>
          LET texts == SelectSeq(svg.body, IsMonthText)
          IN  /\ \A i \in 0..(N - 1) :
                    IsQuarterStart(days[i + 1].date)
                        <=> (\E k \in DOMAIN labels : labels[k][1] = i)
              /\ CoversFullYear => Len(texts) = 4
              /\ Len(texts) = Len(labels)
              /\ \A k \in DOMAIN texts :
                    /\ texts[k].content = labels[k][2]
                    /\ texts[k].x = Fmt2(xs[labels[k][1] + 1])

C5_Witness ==
    /\ pc = "returned" /\ CoversFullYear /\ N = 366
    /\ Len(labels) = 4
    /\ labels[2] = <<91, "Apr">>
    /\ Len(SelectSeq(svg.body, IsMonthText)) = 4

Layer(e) ==
    IF e.role = "background" THEN 1
    ELSE IF e.role = "grid" THEN 2
    ELSE IF e.role \in {"title", "subtitle"} THEN 3
    ELSE IF e.role = "glow" THEN 4
    ELSE IF e.role = "crisp" THEN 5
    ELSE IF e.role = "month" THEN 6
    ELSE 7

IsDrawn(e) == e.role # "filter"

CountRole(body, r) == Cardinality({i \in DOMAIN body : body[i].role = r})

\* C6: for every non-empty series the elements of the document come in the
\* order background, the 6 gridlines, title and subtitle, glow path, crisp
\* path, month labels, the single max annotation.
C6_LayerOrder ==
    (Ended /\ N > 0) =>
        /\ svg.kind = "svg"
        /\ LET drawn == SelectSeq(svg.body, IsDrawn)
           IN  /\ \A i, j \in DOMAIN drawn : i < j => Layer(drawn[i]) <= Layer(drawn[j])
               /\ CountRole(drawn, "background") = 1
               /\ CountRole(drawn, "grid") = 6
               /\ CountRole(drawn, "title") = 1
               /\ CountRole(drawn, "subtitle") = 1
               /\ CountRole(drawn, "glow") = 1
               /\ CountRole(drawn, "crisp") = 1
               /\ CountRole(drawn, "max") = 1

\* C7: the scaler is logarithmic exactly when the peak count exceeds 20; for
\* a peak in 1..20 the norm is count / peak, strictly increasing in count.
C7_ScalerMode ==
    (pc = "returned" /\ N > 0) =>
        /\ Len(norms) = N
        /\ (Peak > 20) =>
              \A k \in 1..N :
                 norms[k] = <<Log1pE4(days[k].count), Log1pE4(Peak)>>
        /\ (Peak > 0 /\ Peak <= 20) =>
              /\ \A k \in 1..N : norms[k][1] * Peak = days[k].count * norms[k][2]
              /\ \A j, k \in 1..N :
                    days[j].count < days[k].count => FracLess(norms[j], norms[k])

C7_Witness ==
    /\ pc = "returned" /\ N = 3
    /\ CountsOf(days) = <<5, 10, 20>>
    /\ 4 * norms[1][1] = norms[1][2]
    /\ 2 * norms[2][1] = norms[2][2]
    /\ norms[3][1] = norms[3][2]

\* C8: when every count is 0, every y build_svg computes is the baseline
\* padding + innerHeight (norm 0), whatever the length, and no division by
\* the peak count faults.
C8_ZeroSeriesAtBaseline ==
    (Ended /\ N > 0 /\ Peak = 0) =>
        /\ raised # "none" => N = 1
        /\ pc = "returned" => Len(ys) = N
        /\ \A k \in DOMAIN ys : FracIs(ys[k], Baseline) /\ norms[k][1] = 0

C8_Witness ==
    /\ pc = "returned" /\ N >= 365 /\ Peak = 0
    /\ FracIs(ys[1], Baseline) /\ FracIs(ys[N], Baseline)

\* C9: when the peak count exceeds 20, a sample at the peak has norm exactly
\* 1 (y = padding) and a sample of count 0 has norm exactly 0 (y = baseline).
C9_LogEndpoints ==
    (pc = "returned" /\ N > 0 /\ Peak > 20) =>
        /\ Len(ys) = N /\ Len(norms) = N
        /\ \A k \in 1..N :
              /\ days[k].count = Peak =>
                    norms[k][1] = norms[k][2] /\ FracIs(ys[k], cfg.padding)
              /\ days[k].count = 0 =>
                    norms[k][1] = 0 /\ FracIs(ys[k], Baseline)

C9_Witness ==
    /\ pc = "returned" /\ N >= 365
    /\ days[200].count = 100
    /\ \A k \in 1..N : k # 200 => days[k].count = 0
    /\ FracIs(ys[200], cfg.padding)
    /\ \A k \in 1..N : k # 200 => FracIs(ys[k], Baseline)

\* C10: for every non-empty series the path is one polyline of exactly n
\* points in input order, a move-to for sample 0 and a line-to for each later
\* sample, and the glow and crisp path elements both carry it.
C10_PolylineThroughEverySample ==
    (Ended /\ N > 0) =>
        /\ Len(path) = N
        /\ \A k \in 1..N :
              /\ path[k].cmd = (IF k = 1 THEN "M" ELSE "L")
              /\ path[k].x = Fmt2(xs[k])
              /\ path[k].y = Fmt2(ys[k])
        /\ svg.kind = "svg"
        /\ \A i \in DOMAIN svg.body :
              svg.body[i].tag = "path" => svg.body[i].d = path
        /\ CountRole(svg.body, "glow") = 1 /\ CountRole(svg.body, "crisp") = 1

----------------------------------------------------------------------------
(* Properties of main, under Spec *)

FailureCause(e, u) ==
    IF ~Truthy(e.GITHUB_TOKEN) /\ ~Truthy(e.GH_PAT) THEN "MissingCredential"
    ELSE IF u.net # "ok" \/ u.status # 200 THEN "UpstreamRequestFailed"
    ELSE IF u.body.kind \in {"not_json", "missing_key", "null_user"}
         THEN "UpstreamResponseMalformed"
    ELSE "none"

DataSourceFailed == FailureCause(env, upstream) # "none"

\* C3: when the data source fails (missing credential, failed or non-success
\* request, malformed payload) main surfaces a failure whose kind no other of
\* the three causes produces, and builds and writes no chart in that run.
C3_DistinctFailureKinds ==
    /\ (pc # "start" /\ DataSourceFailed) =>
          /\ pc = "failed" /\ raised # "none"
          /\ svg = NoDocument /\ outFile = NoDocument
          /\ \A e \in Envs, u \in Upstreams :
                (FailureCause(e, u) \notin {"none", FailureCause(env, upstream)})
                    => fetch_contributions(e, u).raised # raised
    /\ outFile # NoDocument => fetch_contributions(env, upstream).raised = "none"

====
